---- MODULE Spec2Model ----
(***************************************************************************)
(* Model of comprehensive-extractor.py: the endpoint sweep with retries    *)
(* (make_request), the GraphQL fallback (try_graphql), the normalisation   *)
(* of the extracted payloads (structure_data) and the exit path of main.   *)
(***************************************************************************)
EXTENDS Integers, Sequences, FiniteSets, TLC

(***************************************************************************)
(* Bounds of the model.                                                    *)
(***************************************************************************)
\* retry_count of make_request ranges over 1..MaxRetryCount
MaxRetryCount == 3
\* number of catalog entries that are not normaliser sources kept in the sweep
NumExtra == 1

(***************************************************************************)
(* JSON values, tagged by kind.                                            *)
(***************************************************************************)
JNull == [k |-> "null"]
JNum(n) == [k |-> "num", n |-> n]
JStr(s) == [k |-> "str", s |-> s]
JList(items) == [k |-> "list", items |-> items]
JObj(fields) == [k |-> "object", fields |-> fields]
NoFields == [key \in {} |-> JNull]

\* Python truthiness of a decoded JSON value ("and data", "if structured[..]")
Truthy(j) ==
    CASE j.k = "null"   -> FALSE
      [] j.k = "num"    -> j.n # 0
      [] j.k = "str"    -> j.s # ""
      [] j.k = "list"   -> Len(j.items) > 0
      [] j.k = "object" -> DOMAIN j.fields # {}

\* isinstance(data, list)
IsList(j) == j.k = "list"

\* variant: wraps a list as well
AsList_AlwaysWrap(j) == JList(<<j>>)

\* data if isinstance(data, list) else [data]
AsList(j) == IF IsList(j) THEN j ELSE JList(<<j>>)

\* substring relation of the strings the model draws, for `key in "text"`
SubstringPairs == {<<"data", "metadata">>}
IsSubstring(sub, s) == sub = s \/ <<sub, s>> \in SubstringPairs

\* `key in j` raises TypeError when j is None, a number or a boolean
InRaises(j) == j.k \in {"null", "num", "bool"}

\* `key in j` for a dict (key lookup), a list (membership) or a str (substring)
In(key, j) ==
    CASE j.k = "object" -> key \in DOMAIN j.fields
      [] j.k = "list"   -> \E i \in 1..Len(j.items) : j.items[i] = JStr(key)
      [] j.k = "str"    -> IsSubstring(key, j.s)
      [] OTHER          -> FALSE

\* j[key] raises unless j is a dict holding key
SubscriptRaises(j, key) == j.k # "object" \/ key \notin DOMAIN j.fields
Subscript(j, key) == j.fields[key]

(***************************************************************************)
(* Configuration and endpoint catalog (__init__).                          *)
(***************************************************************************)
execution_id == 88715
journey_id == 527218
project_id == 4889

\* names of self.endpoints, in catalog order
AllEndpoints ==
    << "execution", "execution_journey", "project_execution", "testsuite",
       "testsuite_direct", "checkpoints", "steps", "journey_steps", "actions",
       "screenshots", "logs", "results", "reports", "testdata", "metadata",
       "org_execution", "v2_execution", "run", "test_run" >>

\* variant: steps ranked above checkpoints
data_sources_StepsFirst ==
    << "steps", "checkpoints", "journey_steps", "testsuite",
       "execution_journey", "graphql" >>

\* priority order of structure_data
data_sources ==
    << "checkpoints", "steps", "journey_steps", "testsuite",
       "execution_journey", "graphql" >>

SourceNames == {data_sources[i] : i \in 1..Len(data_sources)}
IsNotSource(n) == n \notin SourceNames
ExtraNames ==
    LET others == SelectSeq(AllEndpoints, IsNotSource)
    IN  {others[i] : i \in 1..NumExtra}
IsSwept(n) == n \in SourceNames \/ n \in ExtraNames

\* the catalog the model sweeps: the normaliser's sources and NumExtra other
\* entries, in the order of self.endpoints
endpoints == SelectSeq(AllEndpoints, IsSwept)

(***************************************************************************)
(* Response bodies the server may answer with.                             *)
(***************************************************************************)
CP1 == JObj([name |-> JStr("CP1")])
S1 == JObj([id |-> JNum(1)])
S2 == JObj([id |-> JNum(2)])

GraphqlAt(j) == JObj([data |-> JObj([execution |-> JObj([journey |-> j])])])

GraphqlPayloads ==
    { JObj(NoFields),
      JObj([errors |-> JList(<<>>)]),
      JObj([data |-> JNull]),
      JObj([data |-> JObj(NoFields)]),
      JObj([data |-> JList(<<>>)]),
      JObj([data |-> JObj([execution |-> JNull])]),
      JObj([data |-> JObj([execution |-> JObj(NoFields)])]),
      JStr("metadata"),
      GraphqlAt(JNull),
      GraphqlAt(JStr("metadata")),
      GraphqlAt(JObj(NoFields)),
      GraphqlAt(JObj([checkpoints |-> JList(<<>>)])),
      GraphqlAt(JObj([checkpoints |-> JList(<<CP1>>)])) }

PayloadsOf(name) ==
    CASE name = "checkpoints"   -> {JList(<<>>), JList(<<CP1>>), CP1}
      [] name = "steps"         -> {JList(<<>>), JList(<<S1, S2>>), S1}
      [] name = "journey_steps" -> {JList(<<S1>>)}
      [] name = "graphql"       -> GraphqlPayloads
      [] OTHER                  -> {JObj([a |-> JNum(1)])}

\* every body a catalog endpoint may answer with
Bodies == UNION {PayloadsOf(endpoints[i]) : i \in 1..Len(endpoints)}

(***************************************************************************)
(* structure_data: the priority loop over data_sources.                    *)
(***************************************************************************)
None == [k |-> "None"]
NoCheckpoints == JList(<<>>)

\* `key in j` followed by j[key]: "miss" when the key is not in j, "fault"
\* when either expression raises
Lookup(j, key) ==
    IF InRaises(j) THEN "fault"
    ELSE IF ~In(key, j) THEN "miss"
    ELSE IF SubscriptRaises(j, key) THEN "fault"
    ELSE "ok"

RECURSIVE Walk(_, _)
Walk(j, path) ==
    IF path = <<>> THEN [status |-> "ok", value |-> j]
    ELSE LET s == Lookup(j, Head(path))
         IN  IF s # "ok" THEN [status |-> s, value |-> JNull]
             ELSE Walk(Subscript(j, Head(path)), Tail(path))

GraphqlPath == <<"data", "execution", "journey", "checkpoints">>

\* variant: the payload is stored without coercion to a list
StepsCheckpoint_NoWrap(data) ==
    JObj([name |-> JStr("Execution Steps"), steps |-> data])

StepsCheckpoint(data) ==
    JObj([name |-> JStr("Execution Steps"), steps |-> AsList(data)])

\* variant: journey_steps handled by the steps branch
RECURSIVE SourceLoop_JourneySteps(_, _)
SourceLoop_JourneySteps(i, extracted) ==
    IF i > Len(data_sources)
    THEN [fault |-> FALSE, checkpoints |-> NoCheckpoints, used |-> "none"]
    ELSE
      LET source == data_sources[i] IN
      IF source \notin DOMAIN extracted
      THEN SourceLoop_JourneySteps(i + 1, extracted)
      ELSE
        LET data == extracted[source] IN
        IF source = "checkpoints" /\ Truthy(data)
        THEN [fault |-> FALSE, checkpoints |-> AsList(data), used |-> source]
        ELSE IF source \in {"steps", "journey_steps"} /\ Truthy(data)
        THEN [fault |-> FALSE,
              checkpoints |-> JList(<<StepsCheckpoint(data)>>),
              used |-> source]
        ELSE IF source = "graphql" /\ Truthy(data)
        THEN LET w == Walk(data, GraphqlPath) IN
             IF w.status = "fault"
             THEN [fault |-> TRUE, checkpoints |-> NoCheckpoints,
                   used |-> "none"]
             ELSE IF w.status = "ok"
             THEN [fault |-> FALSE, checkpoints |-> w.value, used |-> source]
             ELSE SourceLoop_JourneySteps(i + 1, extracted)
        ELSE SourceLoop_JourneySteps(i + 1, extracted)

RECURSIVE SourceLoop(_, _)
SourceLoop(i, extracted) ==
    IF i > Len(data_sources)
    THEN [fault |-> FALSE, checkpoints |-> NoCheckpoints, used |-> "none"]
    ELSE
      LET source == data_sources[i] IN
      IF source \notin DOMAIN extracted THEN SourceLoop(i + 1, extracted)
      ELSE
        LET data == extracted[source] IN
        IF source = "checkpoints" /\ Truthy(data)
        THEN [fault |-> FALSE, checkpoints |-> AsList(data), used |-> source]
        ELSE IF source = "steps" /\ Truthy(data)
        THEN [fault |-> FALSE,
              checkpoints |-> JList(<<StepsCheckpoint(data)>>),
              used |-> source]
        ELSE IF source = "graphql" /\ Truthy(data)
        THEN LET w == Walk(data, GraphqlPath) IN
             IF w.status = "fault"
             THEN [fault |-> TRUE, checkpoints |-> NoCheckpoints,
                   used |-> "none"]
             ELSE IF w.status = "ok"
             THEN [fault |-> FALSE, checkpoints |-> w.value, used |-> source]
             ELSE SourceLoop(i + 1, extracted)
        ELSE SourceLoop(i + 1, extracted)

\* the dict built at the top of structure_data, with its checkpoints filled in
Structured(checkpoints) ==
    [executionId |-> execution_id, journeyId |-> journey_id,
     projectId |-> project_id, checkpoints |-> checkpoints]

(***************************************************************************)
(* State.                                                                  *)
(***************************************************************************)
VARIABLES
    pc,                   \* where main is: "sweep", "fallback", "structure",
                          \* "save", "report", "done"
    retry_count,          \* make_request's retry_count
    idx,                  \* position in self.endpoints of the current endpoint
    attempt,              \* loop variable of make_request
    x_auth_token,         \* 'X-Auth-Token' in self.session.headers
    successful_endpoints, \* self.results['successful_endpoints']
    failed_endpoints,     \* self.results['failed_endpoints']
    extracted_data,       \* self.results['extracted_data']
    structured_data,      \* self.results['structured_data']
    exit_code,            \* argument of sys.exit, -1 while running
    faultIn,              \* the method whose exception main caught, or "none"
    requests,             \* session.get calls of the latest make_request
    reqName,              \* endpoint name of the latest make_request
    lastOutcome,          \* how the latest attempt of make_request ended
    slept,                \* the latest attempt ran time.sleep(1)
    upgrade,              \* the latest attempt set X-Auth-Token: "none",
                          \* "added" (was absent), "readded" (was present)
    sent,                 \* the latest step sent a request "with"/"without"
                          \* X-Auth-Token, or "none"
    graphqlCalls,         \* calls of try_graphql
    graphqlOutcome        \* how try_graphql ended, "none" if not called

vars == << pc, retry_count, idx, attempt, x_auth_token, successful_endpoints,
           failed_endpoints, extracted_data, structured_data, exit_code,
           faultIn, requests, reqName, lastOutcome, slept, upgrade, sent,
           graphqlCalls, graphqlOutcome >>

NoData == [n \in {} |-> JNull]

Init ==
    /\ pc = "sweep"
    /\ retry_count \in 1..MaxRetryCount
    /\ idx = 1
    /\ attempt = 0
    /\ x_auth_token = FALSE
    /\ successful_endpoints = <<>>
    /\ failed_endpoints = <<>>
    /\ extracted_data = NoData
    /\ structured_data = None
    /\ exit_code = -1
    /\ faultIn = "none"
    /\ requests = 0
    /\ reqName = "none"
    /\ lastOutcome = "none"
    /\ slept = FALSE
    /\ upgrade = "none"
    /\ sent = "none"
    /\ graphqlCalls = 0
    /\ graphqlOutcome = "none"

(***************************************************************************)
(* make_request, one loop iteration per action, driven by the for loop of  *)
(* extract_all_data.                                                       *)
(***************************************************************************)
InRequest == pc = "sweep" /\ idx <= Len(endpoints)

\* variant: requests built from the constructor's headers only
Headers_Fresh == "without"

Headers == IF x_auth_token THEN "with" ELSE "without"

\* self.session.get(url, timeout=10)
Get ==
    /\ requests' = (IF attempt = 0 THEN 1 ELSE requests + 1)
    /\ reqName' = endpoints[idx]
    /\ sent' = Headers

\* make_request returns; extract_all_data moves to the next endpoint
Return ==
    /\ idx' = idx + 1
    /\ attempt' = 0
    /\ pc' = (IF idx + 1 > Len(endpoints) THEN "fallback" ELSE "sweep")

\* variant: the loop runs one iteration too many
NextAttempt_OffByOne ==
    IF attempt + 1 <= retry_count
    THEN /\ attempt' = attempt + 1
         /\ UNCHANGED << idx, pc, failed_endpoints >>
    ELSE /\ failed_endpoints' =
                Append(failed_endpoints, [name |-> endpoints[idx]])
         /\ Return

\* variant: leaving the loop records nothing
NextAttempt_NoRecord ==
    IF attempt + 1 < retry_count
    THEN /\ attempt' = attempt + 1
         /\ UNCHANGED << idx, pc, failed_endpoints >>
    ELSE /\ UNCHANGED failed_endpoints
         /\ Return

\* end of a loop iteration that did not return: next iteration, or leave the
\* loop and record the failure
NextAttempt ==
    IF attempt + 1 < retry_count
    THEN /\ attempt' = attempt + 1
         /\ UNCHANGED << idx, pc, failed_endpoints >>
    ELSE /\ failed_endpoints' =
                Append(failed_endpoints, [name |-> endpoints[idx]])
         /\ Return

\* variant: sleeps after the final attempt too
SleepBeforeRetry_Always == slept' = TRUE

\* if attempt < retry_count - 1: time.sleep(1)
SleepBeforeRetry == slept' = (attempt < retry_count - 1)

\* variant: the name is put at the front of successful_endpoints
RequestOk_Prepend(data) ==
    /\ InRequest
    /\ data \in PayloadsOf(endpoints[idx])
    /\ Get
    /\ lastOutcome' = "200"
    /\ successful_endpoints' = <<endpoints[idx]>> \o successful_endpoints
    /\ extracted_data' =
          [n \in DOMAIN extracted_data \cup {endpoints[idx]} |->
              IF n = endpoints[idx] THEN data ELSE extracted_data[n]]
    /\ slept' = FALSE
    /\ upgrade' = "none"
    /\ Return
    /\ UNCHANGED << retry_count, x_auth_token, failed_endpoints,
                    structured_data, exit_code, faultIn, graphqlCalls,
                    graphqlOutcome >>

\* HTTP 200 and response.json() parses
RequestOk(data) ==
    /\ InRequest
    /\ data \in PayloadsOf(endpoints[idx])
    /\ Get
    /\ lastOutcome' = "200"
    /\ successful_endpoints' = Append(successful_endpoints, endpoints[idx])
    /\ extracted_data' =
          [n \in DOMAIN extracted_data \cup {endpoints[idx]} |->
              IF n = endpoints[idx] THEN data ELSE extracted_data[n]]
    /\ slept' = FALSE
    /\ upgrade' = "none"
    /\ Return
    /\ UNCHANGED << retry_count, x_auth_token, failed_endpoints,
                    structured_data, exit_code, faultIn, graphqlCalls,
                    graphqlOutcome >>

\* variant: HTTP 401 handled like any other status
RequestAuthFailed_NoUpgrade ==
    /\ InRequest
    /\ Get
    /\ lastOutcome' = "401"
    /\ x_auth_token' = x_auth_token
    /\ upgrade' = "none"
    /\ SleepBeforeRetry
    /\ NextAttempt
    /\ UNCHANGED << retry_count, successful_endpoints, extracted_data,
                    structured_data, exit_code, faultIn, graphqlCalls,
                    graphqlOutcome >>

\* variant: the header is set only while it is absent
RequestAuthFailed_UpgradeOnce ==
    /\ InRequest
    /\ Get
    /\ lastOutcome' = "401"
    /\ IF attempt = 0 /\ ~x_auth_token
       THEN /\ x_auth_token' = TRUE
            /\ upgrade' = "added"
            /\ slept' = FALSE
       ELSE /\ x_auth_token' = x_auth_token
            /\ upgrade' = "none"
            /\ SleepBeforeRetry
    /\ NextAttempt
    /\ UNCHANGED << retry_count, successful_endpoints, extracted_data,
                    structured_data, exit_code, faultIn, graphqlCalls,
                    graphqlOutcome >>

\* HTTP 401
RequestAuthFailed ==
    /\ InRequest
    /\ Get
    /\ lastOutcome' = "401"
    /\ IF attempt = 0
       THEN /\ x_auth_token' = TRUE
            /\ upgrade' = (IF x_auth_token THEN "readded" ELSE "added")
            /\ slept' = FALSE
       ELSE /\ x_auth_token' = x_auth_token
            /\ upgrade' = "none"
            /\ SleepBeforeRetry
    /\ NextAttempt
    /\ UNCHANGED << retry_count, successful_endpoints, extracted_data,
                    structured_data, exit_code, faultIn, graphqlCalls,
                    graphqlOutcome >>

\* HTTP 404 or any other status
RequestStatus(status) ==
    /\ InRequest
    /\ Get
    /\ lastOutcome' = status
    /\ SleepBeforeRetry
    /\ upgrade' = "none"
    /\ NextAttempt
    /\ UNCHANGED << retry_count, x_auth_token, successful_endpoints,
                    extracted_data, structured_data, exit_code, faultIn,
                    graphqlCalls, graphqlOutcome >>

\* variant: the name of an HTTP 200 is appended before the body is parsed
RequestRaises_NameFirst(kind) ==
    /\ InRequest
    /\ Get
    /\ lastOutcome' = kind
    /\ slept' = FALSE
    /\ upgrade' = "none"
    /\ successful_endpoints' =
          (IF kind = "badjson"
           THEN Append(successful_endpoints, endpoints[idx])
           ELSE successful_endpoints)
    /\ NextAttempt
    /\ UNCHANGED << retry_count, x_auth_token, extracted_data,
                    structured_data, exit_code, faultIn, graphqlCalls,
                    graphqlOutcome >>

\* session.get raises Timeout, ConnectionError or another exception, or the
\* body of an HTTP 200 does not parse and response.json() raises
RequestRaises(kind) ==
    /\ InRequest
    /\ Get
    /\ lastOutcome' = kind
    /\ slept' = FALSE
    /\ upgrade' = "none"
    /\ NextAttempt
    /\ UNCHANGED << retry_count, x_auth_token, successful_endpoints,
                    extracted_data, structured_data, exit_code, faultIn,
                    graphqlCalls, graphqlOutcome >>

Statuses == {"404", "other"}
Raised == {"timeout", "connection", "badjson", "exception"}

(***************************************************************************)
(* The GraphQL fallback of extract_all_data.                               *)
(***************************************************************************)
\* variant: threshold compared with <=
NeedsGraphql_AtMost3 == Len(successful_endpoints) <= 3

NeedsGraphql == Len(successful_endpoints) < 3

\* variant: the name is appended but the body is not stored
GraphqlOk_NoStore(data) ==
    /\ pc = "fallback"
    /\ NeedsGraphql
    /\ graphqlCalls' = graphqlCalls + 1
    /\ graphqlOutcome' = "200"
    /\ sent' = Headers
    /\ successful_endpoints' = Append(successful_endpoints, "graphql")
    /\ pc' = "structure"
    /\ UNCHANGED << retry_count, idx, attempt, x_auth_token, failed_endpoints,
                    extracted_data, structured_data, exit_code, faultIn,
                    requests, reqName, lastOutcome, slept, upgrade >>

\* try_graphql, HTTP 200 and response.json() parses
GraphqlOk(data) ==
    /\ pc = "fallback"
    /\ NeedsGraphql
    /\ graphqlCalls' = graphqlCalls + 1
    /\ graphqlOutcome' = "200"
    /\ sent' = Headers
    /\ extracted_data' =
          [n \in DOMAIN extracted_data \cup {"graphql"} |->
              IF n = "graphql" THEN data ELSE extracted_data[n]]
    /\ successful_endpoints' = Append(successful_endpoints, "graphql")
    /\ pc' = "structure"
    /\ UNCHANGED << retry_count, idx, attempt, x_auth_token, failed_endpoints,
                    structured_data, exit_code, faultIn, requests, reqName,
                    lastOutcome, slept, upgrade >>

\* variant: a failed probe is recorded in failed_endpoints
GraphqlFailed_Recorded(kind) ==
    /\ pc = "fallback"
    /\ NeedsGraphql
    /\ graphqlCalls' = graphqlCalls + 1
    /\ graphqlOutcome' = kind
    /\ sent' = Headers
    /\ failed_endpoints' = Append(failed_endpoints, [name |-> "graphql"])
    /\ pc' = "structure"
    /\ UNCHANGED << retry_count, idx, attempt, x_auth_token,
                    successful_endpoints, extracted_data, structured_data,
                    exit_code, faultIn, requests, reqName, lastOutcome,
                    slept, upgrade >>

\* try_graphql, another status ("status"), or session.post raises
\* ("exception"), or the body of an HTTP 200 does not parse and
\* response.json() raises ("badjson")
GraphqlFailed(kind) ==
    /\ pc = "fallback"
    /\ NeedsGraphql
    /\ graphqlCalls' = graphqlCalls + 1
    /\ graphqlOutcome' = kind
    /\ sent' = Headers
    /\ pc' = "structure"
    /\ UNCHANGED << retry_count, idx, attempt, x_auth_token,
                    successful_endpoints, failed_endpoints, extracted_data,
                    structured_data, exit_code, faultIn, requests, reqName,
                    lastOutcome, slept, upgrade >>

GraphqlFailures == {"status", "exception", "badjson"}

\* three or more endpoints answered: no fallback
GraphqlSkipped ==
    /\ pc = "fallback"
    /\ ~NeedsGraphql
    /\ sent' = "none"
    /\ pc' = "structure"
    /\ UNCHANGED << retry_count, idx, attempt, x_auth_token,
                    successful_endpoints, failed_endpoints, extracted_data,
                    structured_data, exit_code, faultIn, requests, reqName,
                    lastOutcome, slept, upgrade, graphqlCalls,
                    graphqlOutcome >>

(***************************************************************************)
(* main after extract_all_data.                                            *)
(***************************************************************************)
\* variant: the result is stored whether or not it has checkpoints
structure_data_AlwaysStored ==
    /\ pc = "structure"
    /\ LET r == SourceLoop(1, extracted_data) IN
       IF r.fault
       THEN /\ pc' = "done"
            /\ exit_code' = 2
            /\ faultIn' = "structure_data"
            /\ UNCHANGED structured_data
       ELSE /\ pc' = "save"
            /\ structured_data' = Structured(r.checkpoints)
            /\ UNCHANGED << exit_code, faultIn >>
    /\ sent' = "none"
    /\ UNCHANGED << retry_count, idx, attempt, x_auth_token,
                    successful_endpoints, failed_endpoints, extracted_data,
                    requests, reqName, lastOutcome, slept, upgrade,
                    graphqlCalls, graphqlOutcome >>

\* structure_data; an exception it raises is caught by main: sys.exit(2)
structure_data ==
    /\ pc = "structure"
    /\ LET r == SourceLoop(1, extracted_data) IN
       IF r.fault
       THEN /\ pc' = "done"
            /\ exit_code' = 2
            /\ faultIn' = "structure_data"
            /\ UNCHANGED structured_data
       ELSE /\ pc' = "save"
            /\ structured_data' =
                  (IF Truthy(r.checkpoints) THEN Structured(r.checkpoints)
                   ELSE structured_data)
            /\ UNCHANGED << exit_code, faultIn >>
    /\ sent' = "none"
    /\ UNCHANGED << retry_count, idx, attempt, x_auth_token,
                    successful_endpoints, failed_endpoints, extracted_data,
                    requests, reqName, lastOutcome, slept, upgrade,
                    graphqlCalls, graphqlOutcome >>

\* save_results; open or json.dump may raise OSError, caught by main
save_results(io_ok) ==
    /\ pc = "save"
    /\ IF io_ok
       THEN pc' = "report" /\ UNCHANGED << exit_code, faultIn >>
       ELSE pc' = "done" /\ exit_code' = 2 /\ faultIn' = "save_results"
    /\ sent' = "none"
    /\ UNCHANGED << retry_count, idx, attempt, x_auth_token,
                    successful_endpoints, failed_endpoints, extracted_data,
                    structured_data, requests, reqName, lastOutcome, slept,
                    upgrade, graphqlCalls, graphqlOutcome >>

\* variant: exit status taken from the probes instead of structured_data
generate_report_ByProbes(io_ok) ==
    /\ pc = "report"
    /\ pc' = "done"
    /\ IF io_ok
       THEN /\ exit_code' = (IF Len(successful_endpoints) > 0 THEN 0 ELSE 1)
            /\ UNCHANGED faultIn
       ELSE /\ exit_code' = 2
            /\ faultIn' = "generate_report"
    /\ sent' = "none"
    /\ UNCHANGED << retry_count, idx, attempt, x_auth_token,
                    successful_endpoints, failed_endpoints, extracted_data,
                    structured_data, requests, reqName, lastOutcome, slept,
                    upgrade, graphqlCalls, graphqlOutcome >>

\* generate_report, then sys.exit(0) or sys.exit(1); an exception raised
\* while reporting (a failing print) is caught by main: sys.exit(2)
generate_report(io_ok) ==
    /\ pc = "report"
    /\ pc' = "done"
    /\ IF io_ok
       THEN /\ exit_code' = (IF structured_data # None THEN 0 ELSE 1)
            /\ UNCHANGED faultIn
       ELSE /\ exit_code' = 2
            /\ faultIn' = "generate_report"
    /\ sent' = "none"
    /\ UNCHANGED << retry_count, idx, attempt, x_auth_token,
                    successful_endpoints, failed_endpoints, extracted_data,
                    structured_data, requests, reqName, lastOutcome, slept,
                    upgrade, graphqlCalls, graphqlOutcome >>

Next ==
    \/ \E data \in Bodies : RequestOk(data)
    \/ RequestAuthFailed
    \/ \E status \in Statuses : RequestStatus(status)
    \/ \E kind \in Raised : RequestRaises(kind)
    \/ \E data \in PayloadsOf("graphql") : GraphqlOk(data)
    \/ \E kind \in GraphqlFailures : GraphqlFailed(kind)
    \/ GraphqlSkipped
    \/ structure_data
    \/ \E io_ok \in BOOLEAN : save_results(io_ok)
    \/ \E io_ok \in BOOLEAN : generate_report(io_ok)

Spec == Init /\ [][Next]_vars

(***************************************************************************)
(* Properties.                                                             *)
(***************************************************************************)
Range(seq) == {seq[i] : i \in 1..Len(seq)}
CatalogNames == Range(endpoints)
FailedNames == {failed_endpoints[i].name : i \in 1..Len(failed_endpoints)}
Occurrences(seq, x) == Cardinality({i \in 1..Len(seq) : seq[i] = x})
FailedOccurrences(x) ==
    Cardinality({i \in 1..Len(failed_endpoints) : failed_endpoints[i].name = x})
IsCatalogName(n) == n # "graphql"
CatalogSuccesses == SelectSeq(successful_endpoints, IsCatalogName)
SweepDone == pc # "sweep"
\* structure_data has returned normally
Normalized ==
    pc \in {"save", "report"} \/ (pc = "done" /\ faultIn # "structure_data")

\* C1: one make_request issues at most retry_count requests, and no request
\* is issued for an endpoint that has already answered HTTP 200 with a body
\* that parses.
C1_BoundedAttempts ==
    [][ (pc = "sweep" /\ sent' # "none") =>
          /\ requests' <= retry_count
          /\ reqName' \notin Range(successful_endpoints) ]_vars

C1_Witness ==
    /\ retry_count > 1
    /\ requests = retry_count
    /\ lastOutcome = "200"
    /\ Len(failed_endpoints) > 0

\* C2: in every state every name of successful_endpoints is a key of
\* extracted_data, and no failed name is in successful_endpoints or a key of
\* extracted_data.
C2_AggregateConsistent ==
    /\ \A n \in Range(successful_endpoints) : n \in DOMAIN extracted_data
    /\ \A n \in FailedNames :
          n \notin Range(successful_endpoints) /\ n \notin DOMAIN extracted_data

C2_Witness ==
    /\ pc = "structure"
    /\ "graphql" \in Range(successful_endpoints)
    /\ Len(CatalogSuccesses) > 0
    /\ Len(failed_endpoints) > 0

\* C3: try_graphql is called at most once, only when the sweep has recorded
\* an outcome for every endpoint, and, once the fallback decision is taken,
\* exactly when fewer than 3 catalog endpoints have succeeded.
C3_GraphqlIffFewSuccesses ==
    /\ graphqlCalls <= 1
    /\ graphqlCalls > 0 =>
          /\ SweepDone
          /\ Len(CatalogSuccesses) + Len(failed_endpoints) = Len(endpoints)
    /\ pc \notin {"sweep", "fallback"} =>
          (graphqlCalls = 1 <=> Len(CatalogSuccesses) < 3)

C3_Witness ==
    /\ pc = "structure"
    /\ graphqlCalls = 1
    /\ Len(CatalogSuccesses) = 2

\* C4: the normalised checkpoints come from the first name, in the order
\* checkpoints, steps, journey_steps, testsuite, execution_journey, graphql,
\* that is in extracted_data and yields a non-empty checkpoint list; an
\* earlier source that is present but empty does not block a later one.
C4_Priority ==
    << "checkpoints", "steps", "journey_steps", "testsuite",
       "execution_journey", "graphql" >>
C4_HasPath(j, path) == Walk(j, path).status = "ok"
C4_Yield(source, data) ==
    CASE source = "checkpoints" -> AsList(data)
      [] source = "steps"       -> JList(<<StepsCheckpoint(data)>>)
      [] source = "graphql"     ->
            IF C4_HasPath(data, GraphqlPath)
            THEN Walk(data, GraphqlPath).value ELSE NoCheckpoints
      [] OTHER                  -> NoCheckpoints
C4_Yields(i) ==
    /\ C4_Priority[i] \in DOMAIN extracted_data
    /\ Truthy(extracted_data[C4_Priority[i]])
    /\ Truthy(C4_Yield(C4_Priority[i], extracted_data[C4_Priority[i]]))
C4_StrictPriority ==
    Normalized =>
      IF \E i \in 1..Len(C4_Priority) : C4_Yields(i)
      THEN LET first == CHOOSE i \in 1..Len(C4_Priority) :
                          C4_Yields(i) /\ \A j \in 1..(i - 1) : ~C4_Yields(j)
           IN  structured_data =
                 Structured(C4_Yield(C4_Priority[first],
                                     extracted_data[C4_Priority[first]]))
      ELSE structured_data = None

C4_Witness ==
    /\ pc = "save"
    /\ "checkpoints" \in DOMAIN extracted_data
    /\ "steps" \in DOMAIN extracted_data
    /\ Truthy(extracted_data["checkpoints"])
    /\ Truthy(extracted_data["steps"])
    /\ structured_data # None
    /\ structured_data.checkpoints = AsList(extracted_data["checkpoints"])

\* C5: a graphql payload without the path data.execution.journey.checkpoints
\* (a key missing, or a value on the path null or not an object) is skipped:
\* structure_data raises nothing, and when no other source yields checkpoints
\* the run ends normalisation with structured_data still None.
C5_IsObject(j) == j.k = "object"
RECURSIVE C5_PathPresent(_, _)
C5_PathPresent(j, path) ==
    \/ path = <<>>
    \/ /\ C5_IsObject(j)
       /\ Head(path) \in DOMAIN j.fields
       /\ C5_PathPresent(j.fields[Head(path)], Tail(path))
C5_GraphqlLacksPath ==
    /\ "graphql" \in DOMAIN extracted_data
    /\ ~C5_PathPresent(extracted_data["graphql"], GraphqlPath)
C5_MalformedGraphqlSkipped ==
    C5_GraphqlLacksPath =>
      /\ faultIn # "structure_data"
      /\ (Normalized /\ ~C4_Yields(1) /\ ~C4_Yields(2)) =>
            structured_data = None

\* C6: when the first attempt of a make_request gets HTTP 401, X-Auth-Token
\* is set on the session and no sleep precedes the next attempt; the attempt
\* is counted: with retry_count = 1 the endpoint is recorded as failed,
\* otherwise the second attempt of the same endpoint is next.
C6_FirstAttempt401 ==
    (lastOutcome = "401" /\ requests = 1) =>
      /\ x_auth_token
      /\ upgrade # "none"
      /\ ~slept
      /\ IF retry_count = 1
         THEN /\ Len(failed_endpoints) > 0
              /\ failed_endpoints[Len(failed_endpoints)].name = reqName
         ELSE /\ pc = "sweep"
              /\ attempt = 1
              /\ endpoints[idx] = reqName

C6_Witness ==
    /\ lastOutcome = "401"
    /\ requests = 1
    /\ upgrade = "added"
    /\ attempt = 1
    /\ ~slept

\* C7: after a non-final attempt that ended in a timeout, a connection
\* error or another exception, make_request sleeps before the next attempt.
C7_DelayAfterException ==
    (pc = "sweep" /\ attempt > 0
       /\ lastOutcome \in {"timeout", "connection", "exception"}) => slept

\* C8 as stated: once X-Auth-Token has been set, no later first-attempt 401
\* sets it and retries immediately again.
C8_UpgradeOncePerRun == upgrade # "readded"

\* C8 amended: the credential upgrade is performed once per endpoint, not
\* once per run: exactly the first attempt of a make_request that gets HTTP
\* 401 performs it, also when X-Auth-Token is already set.
C8_UpgradeOncePerEndpoint ==
    upgrade # "none" <=> (lastOutcome = "401" /\ requests = 1)

C8_Witness ==
    /\ upgrade = "readded"
    /\ ~slept
    /\ idx > 1

\* C9: once X-Auth-Token is on the session no step removes it, and every
\* later request (GET of the sweep, POST of try_graphql) is sent with it.
C9_HeaderPersists ==
    [][ x_auth_token => (x_auth_token' /\ sent' # "without") ]_vars

C9_Witness ==
    /\ x_auth_token
    /\ graphqlCalls = 1
    /\ sent = "with"

\* C10: every make_request ends in exactly one outcome: after the sweep each
\* catalog name occurs exactly once in successful_endpoints and
\* failed_endpoints together, so their sizes (without "graphql") add up to
\* the catalog's, and during the sweep exactly the endpoints already visited
\* are recorded.
C10_OneOutcomePerEndpoint ==
    /\ Len(CatalogSuccesses) + Len(failed_endpoints) = idx - 1
    /\ \A i \in 1..(idx - 1) :
          Occurrences(successful_endpoints, endpoints[i])
            + FailedOccurrences(endpoints[i]) = 1
    /\ SweepDone => idx - 1 = Len(endpoints)

C10_Witness ==
    /\ pc = "fallback"
    /\ successful_endpoints = <<endpoints[1]>>
    /\ Len(failed_endpoints) = Len(endpoints) - 1

\* C11: successful_endpoints keeps the catalog order, and "graphql", when
\* present, occurs once and after every catalog name.
C11_Position(name) ==
    CHOOSE i \in 1..Len(AllEndpoints) : AllEndpoints[i] = name
C11_CatalogOrder ==
    \A i, j \in 1..Len(successful_endpoints) :
        i < j =>
          /\ successful_endpoints[i] # "graphql"
          /\ successful_endpoints[j] # "graphql" =>
                C11_Position(successful_endpoints[i])
                  < C11_Position(successful_endpoints[j])

C11_Witness ==
    /\ Len(successful_endpoints) = 3
    /\ successful_endpoints[3] = "graphql"

\* C12 as stated: when journey_steps is the first source that is present and
\* non-empty, the result is one checkpoint "Execution Steps" holding the
\* payload coerced to a list.
C12_JourneyStepsFirst ==
    /\ "journey_steps" \in DOMAIN extracted_data
    /\ Truthy(extracted_data["journey_steps"])
    /\ ~C4_Yields(1)
    /\ ~C4_Yields(2)
C12_AsSteps(data) ==
    JList(<< JObj([name |-> JStr("Execution Steps"),
                   steps |-> IF data.k = "list" THEN data
                             ELSE JList(<<data>>)]) >>)
C12_JourneyStepsLikeSteps ==
    (Normalized /\ C12_JourneyStepsFirst) =>
        structured_data =
            Structured(C12_AsSteps(extracted_data["journey_steps"]))

\* C12 amended: journey_steps has no reshaping rule and is skipped like
\* testsuite and execution_journey: when it is the first source that is
\* present and non-empty the result comes from graphql if that yields
\* checkpoints, and is "no usable data" otherwise.
C12_JourneyStepsSkipped ==
    (Normalized /\ C12_JourneyStepsFirst) =>
        IF C4_Yields(6)
        THEN structured_data =
               Structured(C4_Yield("graphql", extracted_data["graphql"]))
        ELSE structured_data = None

C12_Witness ==
    /\ pc = "save"
    /\ C12_JourneyStepsFirst
    /\ structured_data = None

\* C13: an HTTP 200 whose body does not parse is a failure: the endpoint gets
\* no entry in successful_endpoints or extracted_data, the next attempt
\* follows if one remains and otherwise the endpoint is recorded as failed;
\* such an answer to try_graphql adds no "graphql" entry.
C13_MalformedIsFailure ==
    /\ lastOutcome = "badjson" =>
          /\ reqName \notin Range(successful_endpoints)
          /\ reqName \notin DOMAIN extracted_data
          /\ IF requests < retry_count
             THEN pc = "sweep" /\ endpoints[idx] = reqName /\ attempt = requests
             ELSE reqName \in FailedNames
    /\ graphqlOutcome = "badjson" =>
          /\ "graphql" \notin Range(successful_endpoints)
          /\ "graphql" \notin DOMAIN extracted_data

C13_Witness ==
    /\ pc = "structure"
    /\ retry_count > 1
    /\ lastOutcome = "badjson"
    /\ graphqlOutcome = "badjson"

C15_StepsWin ==
    /\ "steps" \in DOMAIN extracted_data
    /\ Truthy(extracted_data["steps"])
    /\ ~("checkpoints" \in DOMAIN extracted_data
           /\ Truthy(extracted_data["checkpoints"]))
C15_Items(data) == IF data.k = "list" THEN data.items ELSE <<data>>
C15_StepsCheckpoint ==
    (Normalized /\ C15_StepsWin) =>
        /\ structured_data # None
        /\ structured_data.checkpoints.k = "list"
        /\ Len(structured_data.checkpoints.items) = 1
        /\ structured_data.checkpoints.items[1] =
              JObj([name |-> JStr("Execution Steps"),
                    steps |-> JList(C15_Items(extracted_data["steps"]))])

C15_Witness ==
    /\ pc = "save"
    /\ C15_StepsWin
    /\ extracted_data["steps"] = S1
    /\ structured_data # None

\* C16: a non-empty checkpoints payload that is a single object becomes a
\* one-element checkpoint list holding that object, and one that is a list
\* becomes the checkpoint list unchanged, whatever else is present.
C16_CheckpointsCoerced ==
    (Normalized /\ "checkpoints" \in DOMAIN extracted_data
       /\ Truthy(extracted_data["checkpoints"])) =>
        /\ structured_data # None
        /\ structured_data.checkpoints =
              (IF extracted_data["checkpoints"].k = "list"
               THEN extracted_data["checkpoints"]
               ELSE JList(<<extracted_data["checkpoints"]>>))

C16_Witness ==
    /\ pc = "save"
    /\ "checkpoints" \in DOMAIN extracted_data
    /\ extracted_data["checkpoints"] = CP1
    /\ "steps" \in DOMAIN extracted_data
    /\ structured_data # None
    /\ structured_data.checkpoints = JList(<<CP1>>)

\* C17: after an attempt that got HTTP 404, another non-200 status, or HTTP
\* 401 on an attempt other than the first, make_request sleeps once when an
\* attempt remains; after the final attempt it does not sleep and the
\* failure is recorded.
C17_DelayAfterStatus ==
    (lastOutcome \in {"404", "other"} \/ (lastOutcome = "401" /\ requests > 1))
      => /\ slept <=> requests < retry_count
         /\ requests = retry_count => reqName \in FailedNames

C17_Witness ==
    /\ lastOutcome = "401"
    /\ requests = 2
    /\ slept
    /\ pc = "sweep"

\* C18: a try_graphql that fails (a non-200 status, or an exception while
\* sending or parsing) changes none of successful_endpoints, extracted_data
\* and failed_endpoints, and the run goes on to structure_data.
C18_FailedProbeNoEffect ==
    [][ (graphqlCalls' # graphqlCalls /\ graphqlOutcome' # "200") =>
          /\ successful_endpoints' = successful_endpoints
          /\ extracted_data' = extracted_data
          /\ failed_endpoints' = failed_endpoints
          /\ pc' = "structure" ]_vars

C18_Witness ==
    /\ pc = "structure"
    /\ graphqlOutcome \in GraphqlFailures
    /\ Len(successful_endpoints) > 0
    /\ Len(failed_endpoints) > 0

\* C19: structured_data is None until structure_data runs and is assigned
\* at most once; when set its checkpoints are non-empty, and after
\* structure_data it is set exactly when some source of the priority order
\* yielded a non-empty checkpoint list.
C19_State ==
    /\ pc \in {"sweep", "fallback", "structure"} => structured_data = None
    /\ structured_data # None => Truthy(structured_data.checkpoints)
    /\ Normalized =>
          (structured_data # None <=>
             \E i \in 1..Len(C4_Priority) : C4_Yields(i))
C19_StructuredOnce ==
    /\ []C19_State
    /\ [][ /\ structured_data # None => structured_data' = structured_data
           /\ structured_data' # structured_data => pc = "structure" ]_vars

C19_Witness ==
    /\ pc = "done"
    /\ exit_code = 0
    /\ "checkpoints" \notin DOMAIN extracted_data
    /\ "graphql" \in DOMAIN extracted_data
    /\ structured_data # None
    /\ structured_data.checkpoints = JList(<<CP1>>)

====
